---------------------------- MODULE Spec2Model ----------------------------
(***************************************************************************)
(* Feedback service: the record model (app/models.py), the SQLite          *)
(* persistence layer (app/database.py), request validation and the HTTP    *)
(* handlers (app/routes.py).                                               *)
(*                                                                         *)
(* Every persistence call runs one SQLite transaction on a connection of   *)
(* its own; SQLite serialises transactions, so one call is one atomic      *)
(* step.  A handler is a sequence of such steps, and the steps of          *)
(* concurrent requests (Flask serves each request on its own thread)       *)
(* interleave between them.  A storage fault (sqlite3.connect, the          *)
(* statement or the commit raising) may strike any persistence call.       *)
(*                                                                         *)
(* Of the metrics only http_requests_total is kept, as the status labels   *)
(* each request has incremented; the histogram, the operation counter and  *)
(* the gauge are written and never read by a handler.  request.json is     *)
(* taken as already parsed.                                                *)
(***************************************************************************)
EXTENDS Integers, Sequences, FiniteSets, TLC

(***************************************************************************)
(* Bounds of the model.                                                    *)
(***************************************************************************)
NumThreads == 2       \* concurrent request threads
MaxRequests == 3      \* requests started in one behaviour
MaxClock == 1         \* clock ticks in one behaviour
MaxFaults == 1        \* storage faults injected in one behaviour
MaxRuns == 3          \* runs of equal characters in a validated message
MaxPathId == 2        \* ids that requests name in their path

(***************************************************************************)
(* Program constant: the longest message accepted, routes.py line 24.      *)
(***************************************************************************)
MaxMessageLen == 500

None == [t |-> "None"]

(***************************************************************************)
(* Text.  A Python str is modelled run-length encoded: a sequence of runs  *)
(* <<c, n>>, n >= 1 copies of character c, no two neighbouring runs of     *)
(* the same character.  So a 501-character message is one run.             *)
(***************************************************************************)
Whitespace == {" ", "\t"}
Chars == Whitespace \cup {"a", "b"}
RunLens == {1, 2, MaxMessageLen - 2, MaxMessageLen - 1, MaxMessageLen, MaxMessageLen + 1}

IsText(s) ==
    /\ \A i \in 1..Len(s) : s[i][1] \in Chars /\ s[i][2] >= 1
    /\ \A i \in 1..(Len(s) - 1) : s[i][1] # s[i + 1][1]

Str(s) == [t |-> "str", s |-> s]

RECURSIVE len(_)
len(s) == IF s = <<>> THEN 0 ELSE s[1][2] + len(Tail(s))

RECURSIVE lstrip(_)
lstrip(s) ==
    IF s # <<>> /\ s[1][1] \in Whitespace THEN lstrip(Tail(s)) ELSE s

RECURSIVE rstrip(_)
rstrip(s) ==
    IF s # <<>> /\ s[Len(s)][1] \in Whitespace
    THEN rstrip(SubSeq(s, 1, Len(s) - 1))
    ELSE s

strip(s) == rstrip(lstrip(s))

(***************************************************************************)
(* request.json: None (no body), a JSON object (the set of its keys and    *)
(* the value under "message"), or a JSON array.  A JSON value is a string, *)
(* a number or null.                                                       *)
(***************************************************************************)
JsonNull == [t |-> "null"]
JsonInt(n) == [t |-> "int", n |-> n]
NoBody == [t |-> "none"]
Dict(keys, message) == [t |-> "dict", keys |-> keys, message |-> message]
List(n) == [t |-> "list", n |-> n]

\* Python truthiness (`not data`): None, {} and [] are falsy.
Falsy(data) ==
    \/ data.t = "none"
    \/ data.t = "dict" /\ data.keys = {}
    \/ data.t = "list" /\ data.n = 0

\* data.get('message', ''): only a dict has .get
DictGet(data) ==
    IF "message" \in data.keys THEN data.message ELSE Str(<<>>)

AttributeError(text) == [t |-> "exc", type |-> "AttributeError", text |-> text]

Returned(ok, result) == [t |-> "ret", ok |-> ok, result |-> result]

Lit(text) == [t |-> "lit", text |-> text]

validate_feedback_message(data) ==
    IF Falsy(data) THEN Returned(FALSE, Lit("Request body is required"))
    ELSE IF data.t # "dict"
    THEN AttributeError("'list' object has no attribute 'get'")
    ELSE IF DictGet(data).t # "str"
    THEN AttributeError("object has no attribute 'strip'")
    ELSE LET message == strip(DictGet(data).s) IN
         IF message = <<>>
         THEN Returned(FALSE, Lit("Message field is required and cannot be empty"))
         ELSE IF len(message) > MaxMessageLen
         THEN Returned(FALSE, Lit("Message cannot exceed 500 characters"))
         ELSE Returned(TRUE, Str(message))


(***************************************************************************)
(* Timestamps.  The clock counts half seconds; datetime.isoformat() leaves *)
(* the fraction out when it is zero, so a timestamp is the sequence        *)
(* <<seconds>> or <<seconds, fraction>>, and Python compares two of them   *)
(* as strings: element by element, a proper prefix first.                  *)
(***************************************************************************)
isoformat(t) == IF t % 2 = 0 THEN <<t \div 2>> ELSE <<t \div 2, 5>>

RECURSIVE StrLess(_, _)
StrLess(a, b) ==
    IF b = <<>> THEN FALSE
    ELSE IF a = <<>> THEN TRUE
    ELSE IF a[1] # b[1] THEN a[1] < b[1]
    ELSE StrLess(Tail(a), Tail(b))

StrLeq(a, b) == a = b \/ StrLess(a, b)

(***************************************************************************)
(* The record model, app/models.py.                                        *)
(***************************************************************************)
Feedback(id, message, created_at, updated_at) ==
    [t |-> "Feedback", id |-> id, message |-> message,
     created_at |-> created_at, updated_at |-> updated_at]

\* Feedback.create: id unset (None, written 0: SQLite rowids start at 1), both
\* timestamps the same reading of the clock
FeedbackCreate(message, clock) ==
    LET now_ == isoformat(clock) IN Feedback(0, message, now_, now_)

to_dict(f) ==
    [t |-> "dict", id |-> f.id, message |-> f.message,
     created_at |-> f.created_at, updated_at |-> f.updated_at]

(***************************************************************************)
(* The persistence layer, app/database.py.  The database is the feedback   *)
(* table (a set of rows, one per id) and the sqlite_sequence entry that    *)
(* AUTOINCREMENT keeps: the largest rowid the table has ever held.         *)
(***************************************************************************)
Row(id, message, created_at, updated_at) ==
    [id |-> id, message |-> message, created_at |-> created_at, updated_at |-> updated_at]

\* Feedback(**dict(row))
FromRow(row) == Feedback(row.id, row.message, row.created_at, row.updated_at)

Ids(table) == { r.id : r \in table }

MaxOf(S) == IF S = {} THEN 0 ELSE CHOOSE m \in S : \A x \in S : x <= m

\* The column without AUTOINCREMENT: one more than the largest rowid stored.
NextRowidNoAutoincrement(db) == MaxOf(Ids(db.rows)) + 1

\* id INTEGER PRIMARY KEY AUTOINCREMENT: one more than the largest rowid ever held
NextRowid(db) == MaxOf(Ids(db.rows) \cup {db.seq}) + 1

OperationalError(text) == [t |-> "exc", type |-> "OperationalError", text |-> text]

FaultPoints == {"connect", "execute", "commit"}

FaultText(fault) ==
    CASE fault = "connect" -> "unable to open database file"
      [] fault = "execute" -> "disk I/O error"
      [] fault = "commit" -> "database is locked"

(***************************************************************************)
(* _get_connection around one statement.  `fault` is where SQLite fails,   *)
(* or "none"; `body` is what the statement does when it runs: the database *)
(* it leaves in the open transaction and the value the call returns.  The  *)
(* outcome: the database afterwards, the exception raised or None, the     *)
(* value returned, and the connections left open.                          *)
(***************************************************************************)
Outcome(db, exc, ret, open) == [db |-> db, exc |-> exc, ret |-> ret, open |-> open]

\* The context manager without its rollback: a failed commit keeps the change.
GetConnectionNoRollback(fault, db, body) ==
    IF fault = "connect" THEN Outcome(db, OperationalError(FaultText(fault)), None, 0)
    ELSE IF fault = "execute" THEN Outcome(db, OperationalError(FaultText(fault)), None, 0)
    ELSE IF fault = "commit" THEN Outcome(body.db, OperationalError(FaultText(fault)), None, 0)
    ELSE Outcome(body.db, None, body.ret, 0)

GetConnection(fault, db, body) ==
    IF fault = "connect"
    THEN \* sqlite3.connect raises before the try: nothing was opened
         Outcome(db, OperationalError(FaultText(fault)), None, 0)
    ELSE LET opened == 1 IN
         IF fault \in {"execute", "commit"}
         THEN \* except: rollback, re-raise; finally: close
              Outcome(db, OperationalError(FaultText(fault)), None, opened - 1)
         ELSE \* commit; finally: close
              Outcome(body.db, None, body.ret, opened - 1)

Body(db, ret) == [db |-> db, ret |-> ret]

BoolVal(b) == [t |-> "bool", v |-> b]
IntVal(n) == [t |-> "int", n |-> n]

\* The insert without feedback.id = cursor.lastrowid.
create_feedbackNoId(fault, db, feedback) ==
    LET id == NextRowid(db)
        row == Row(id, feedback.message, feedback.created_at, feedback.updated_at)
    IN GetConnection(fault, db,
           Body([rows |-> db.rows \cup {row}, seq |-> id], feedback))

\* INSERT, then feedback.id = cursor.lastrowid
create_feedback(fault, db, feedback) ==
    LET id == NextRowid(db)
        row == Row(id, feedback.message, feedback.created_at, feedback.updated_at)
    IN GetConnection(fault, db,
           Body([rows |-> db.rows \cup {row}, seq |-> id],
                [feedback EXCEPT !.id = id]))

get_feedback_by_id(fault, db, feedback_id) ==
    GetConnection(fault, db,
        Body(db, IF feedback_id \in Ids(db.rows)
                 THEN FromRow(CHOOSE r \in db.rows : r.id = feedback_id)
                 ELSE None))

UpdateRows(table, feedback_id, message, updated_at) ==
    { IF r.id = feedback_id
      THEN [r EXCEPT !.message = message, !.updated_at = updated_at]
      ELSE r : r \in table }

update_feedback(fault, db, feedback_id, message, updated_at) ==
    GetConnection(fault, db,
        Body([db EXCEPT !.rows = UpdateRows(db.rows, feedback_id, message, updated_at)],
             BoolVal(feedback_id \in Ids(db.rows))))

\* A DELETE that removes the newest row when the id matches none.
DeleteRowsAny(table, feedback_id) ==
    IF feedback_id \in Ids(table) THEN { r \in table : r.id # feedback_id }
    ELSE { r \in table : r.id # MaxOf(Ids(table)) }

\* DELETE FROM feedback WHERE id = ?
DeleteRows(table, feedback_id) == { r \in table : r.id # feedback_id }

\* A rowcount that reports a row removed whatever the id.
DeleteRowcountAlways(table, feedback_id) == 1

\* cursor.rowcount of the DELETE
DeleteRowcount(table, feedback_id) ==
    Cardinality({ r \in table : r.id = feedback_id })

delete_feedback(fault, db, feedback_id) ==
    GetConnection(fault, db,
        Body([db EXCEPT !.rows = DeleteRows(db.rows, feedback_id)],
             BoolVal(DeleteRowcount(db.rows, feedback_id) > 0)))

count_feedback(fault, db) ==
    GetConnection(fault, db, Body(db, IntVal(Cardinality(db.rows))))

\* ORDER BY created_at DESC: rows of equal created_at come in any order
Orderings(table) ==
    { s \in [1..Cardinality(table) -> table] :
        /\ \A i, j \in DOMAIN s : i # j => s[i] # s[j]
        /\ \A i, j \in DOMAIN s : i < j => StrLeq(s[j].created_at, s[i].created_at) }

get_all_feedback(fault, db, order) ==
    GetConnection(fault, db, Body(db, [t |-> "list", items |-> [i \in DOMAIN order |-> FromRow(order[i])]]))

(***************************************************************************)
(* State.                                                                  *)
(***************************************************************************)
VARIABLES
    rows,       \* the feedback table
    seq,        \* sqlite_sequence: the largest rowid the table has ever held
    conns,      \* connections open between persistence calls
    now,        \* the clock datetime.utcnow() reads
    th,         \* per request thread: the handler's position and locals
    started,    \* requests started so far
    faults,     \* storage faults injected so far
    assigned,   \* history: the ids create_feedback has returned, in order
    deleted,    \* history: the delete_feedback calls that returned True
    lastCount,  \* history: the last count_feedback result, with the number of
                \* creates less the number of deletes at that call
    vin, vout   \* a payload and what validate_feedback_message makes of it

vars == <<rows, seq, conns, now, th, started, faults, assigned, deleted, lastCount, vin, vout>>

Threads == 1..NumThreads
PathIds == 1..MaxPathId

DB == [rows |-> rows, seq |-> seq]

\* `success` is the handler's local of that name; `wrote` is history: whether a
\* persistence call of this request has changed the table.
Idle ==
    [pc |-> "idle", op |-> "none", fid |-> 0, data |-> NoBody, result |-> None,
     feedback |-> None, updated_at |-> <<>>, success |-> "unset", wrote |-> FALSE,
     status |-> 0, body |-> None, counted |-> <<>>]

Req(op, fid, data) == [Idle EXCEPT !.op = op, !.fid = fid, !.data = data]

\* The payloads the requests of the model carry.
ReqPayloads ==
    { NoBody,
      Dict({"message"}, Str(<<<<" ", 1>>, <<"a", 1>>, <<" ", 1>>>>)),
      Dict({"message"}, Str(<<<<"b", 1>>>>)),
      Dict({"message"}, JsonNull) }

Faults == IF faults < MaxFaults THEN FaultPoints \cup {"none"} ELSE {"none"}

ErrorBody(text) == [t |-> "error", error |-> text]

MainInit ==
    /\ rows = {}
    /\ seq = 0
    /\ conns = 0
    /\ now = 0
    /\ th = [t \in Threads |-> Idle]
    /\ started = 0
    /\ faults = 0
    /\ assigned = <<>>
    /\ deleted = 0
    /\ lastCount = [ret |-> 0, net |-> 0]

Init == MainInit /\ vin = NoBody /\ vout = None

\* What a persistence call with outcome r leaves behind.
ApplyDb(r, fault) ==
    /\ rows' = r.db.rows
    /\ seq' = r.db.seq
    /\ conns' = conns + r.open
    /\ faults' = faults + (IF fault = "none" THEN 0 ELSE 1)

NoDb == UNCHANGED <<rows, seq, conns, faults>>

\* A thread that is idle, or has returned its last response, takes a request.
Begin(t, op, fid, data) ==
    /\ th[t].pc \in {"idle", "done"}
    /\ started < MaxRequests
    /\ started' = started + 1

\* The response is returned: status, body, and the increments of
\* http_requests_total (their status labels) the handler made on its way.
Done(t, me, status, body, counts) ==
    th' = [th EXCEPT ![t] =
              [me EXCEPT !.pc = "done", !.result = None, !.feedback = None,
                         !.updated_at = <<>>, !.status = status, !.body = body,
                         !.counted = counts]]

\* except Exception: log, count a 500, answer "Internal server error"
Internal(t, me, counts) ==
    Done(t, me, 500, ErrorBody("Internal server error"), counts \o <<500>>)

Goto(t, me, pc) == th' = [th EXCEPT ![t] = [me EXCEPT !.pc = pc]]

\* history: the call with outcome r changed the table
Wrote(me, r) == [me EXCEPT !.wrote = @ \/ r.db.rows # rows]

Counted(r) ==
    lastCount' = [ret |-> r.ret.n, net |-> Len(assigned) - deleted]

(***************************************************************************)
(* GET /health                                                             *)
(***************************************************************************)
HealthError(e) == [t |-> "unhealthy", status |-> "unhealthy", error |-> e.text]

health_check(t) ==
    /\ Begin(t, "health", 0, NoBody)
    /\ \E fault \in Faults :
         LET r == count_feedback(fault, DB)
             me == Req("health", 0, NoBody) IN
         /\ ApplyDb(r, fault)
         /\ IF r.exc = None
            THEN /\ Counted(r)
                 /\ Done(t, me, 200,
                         [t |-> "healthy", status |-> "healthy",
                          timestamp |-> isoformat(now), feedback_count |-> r.ret.n],
                         <<200>>)
            ELSE /\ UNCHANGED lastCount
                 /\ Done(t, me, 503, HealthError(r.exc), <<503>>)
    /\ UNCHANGED <<now, assigned, deleted, vin, vout>>

(***************************************************************************)
(* POST /feedback: validate and build the record, insert it, count.        *)
(***************************************************************************)
PostBegin(t) ==
    \E data \in ReqPayloads :
       /\ Begin(t, "post", 0, data)
       /\ LET v == validate_feedback_message(data)
              me == Req("post", 0, data) IN
          IF v.t = "exc" THEN Internal(t, me, <<>>)
          ELSE IF ~v.ok THEN Done(t, me, 400, ErrorBody(v.result.text), <<400>>)
          ELSE Goto(t, [me EXCEPT !.result = v.result,
                                  !.feedback = FeedbackCreate(v.result.s, now)],
                    "post_insert")
       /\ NoDb
       /\ UNCHANGED <<now, assigned, deleted, lastCount, vin, vout>>

PostInsert(t) ==
    /\ th[t].pc = "post_insert"
    /\ \E fault \in Faults :
         LET r == create_feedback(fault, DB, th[t].feedback)
             me == Wrote(th[t], r) IN
         /\ ApplyDb(r, fault)
         /\ IF r.exc # None
            THEN /\ Internal(t, me, <<>>)
                 /\ UNCHANGED assigned
            ELSE /\ Goto(t, [me EXCEPT !.feedback = r.ret], "post_count")
                 /\ assigned' = Append(assigned, r.ret.id)
    /\ UNCHANGED <<now, started, deleted, lastCount, vin, vout>>

PostCount(t) ==
    /\ th[t].pc = "post_count"
    /\ \E fault \in Faults :
         LET r == count_feedback(fault, DB)
             me == th[t] IN
         /\ ApplyDb(r, fault)
         /\ IF r.exc # None
            THEN /\ Internal(t, me, <<>>)
                 /\ UNCHANGED lastCount
            ELSE /\ Counted(r)
                 /\ Done(t, me, 201, to_dict(me.feedback), <<201>>)
    /\ UNCHANGED <<now, started, assigned, deleted, vin, vout>>

(***************************************************************************)
(* GET /feedback and GET /feedback/<id>                                    *)
(***************************************************************************)
get_all(t) ==
    /\ Begin(t, "get_all", 0, NoBody)
    /\ \E fault \in Faults, order \in Orderings(rows) :
         LET r == get_all_feedback(fault, DB, order)
             me == Req("get_all", 0, NoBody) IN
         /\ ApplyDb(r, fault)
         /\ IF r.exc # None
            THEN Internal(t, me, <<>>)
            ELSE Done(t, me, 200,
                      [t |-> "list",
                       items |-> [i \in DOMAIN r.ret.items |-> to_dict(r.ret.items[i])]],
                      <<200>>)
    /\ UNCHANGED <<now, assigned, deleted, lastCount, vin, vout>>

get_feedback(t) ==
    \E fid \in PathIds :
       /\ Begin(t, "get", fid, NoBody)
       /\ \E fault \in Faults :
            LET r == get_feedback_by_id(fault, DB, fid)
                me == Req("get", fid, NoBody) IN
            /\ ApplyDb(r, fault)
            /\ IF r.exc # None THEN Internal(t, me, <<>>)
               ELSE IF r.ret = None
               THEN Done(t, me, 404, ErrorBody("Feedback not found"), <<404>>)
               ELSE Done(t, me, 200, to_dict(r.ret), <<200>>)
       /\ UNCHANGED <<now, assigned, deleted, lastCount, vin, vout>>

(***************************************************************************)
(* PUT /feedback/<id>: validate and look the record up, read the clock,    *)
(* update, read the record again.                                          *)
(***************************************************************************)
PutBegin(t) ==
    \E fid \in PathIds, data \in ReqPayloads :
       /\ Begin(t, "put", fid, data)
       /\ LET v == validate_feedback_message(data)
              me == Req("put", fid, data) IN
          IF v.t = "exc" THEN Internal(t, me, <<>>) /\ NoDb
          ELSE IF ~v.ok
          THEN Done(t, me, 400, ErrorBody(v.result.text), <<400>>) /\ NoDb
          ELSE \E fault \in Faults :
                 LET r == get_feedback_by_id(fault, DB, fid) IN
                 /\ ApplyDb(r, fault)
                 /\ IF r.exc # None THEN Internal(t, me, <<>>)
                    ELSE IF r.ret = None
                    THEN Done(t, me, 404, ErrorBody("Feedback not found"), <<404>>)
                    ELSE Goto(t, [me EXCEPT !.result = v.result], "put_stamp")
       /\ UNCHANGED <<now, assigned, deleted, lastCount, vin, vout>>

PutStamp(t) ==
    /\ th[t].pc = "put_stamp"
    /\ Goto(t, [th[t] EXCEPT !.updated_at = isoformat(now)], "put_update")
    /\ NoDb
    /\ UNCHANGED <<now, started, assigned, deleted, lastCount, vin, vout>>

PutUpdate(t) ==
    /\ th[t].pc = "put_update"
    /\ \E fault \in Faults :
         LET r == update_feedback(fault, DB, th[t].fid, th[t].result.s, th[t].updated_at)
             me == Wrote(th[t], r) IN
         /\ ApplyDb(r, fault)
         /\ IF r.exc # None THEN Internal(t, me, <<>>)
            ELSE IF r.ret.v
            THEN Goto(t, [me EXCEPT !.success = "true"], "put_reread")
            ELSE Done(t, [me EXCEPT !.success = "false"], 500,
                      ErrorBody("Update failed"), <<500>>)
    /\ UNCHANGED <<now, started, assigned, deleted, lastCount, vin, vout>>

\* The 200 is counted before updated_feedback.to_dict() is evaluated: when the
\* record is gone, to_dict raises on None and the handler counts a 500 as well.
PutReread(t) ==
    /\ th[t].pc = "put_reread"
    /\ \E fault \in Faults :
         LET me == th[t]
             r == get_feedback_by_id(fault, DB, me.fid) IN
         /\ ApplyDb(r, fault)
         /\ IF r.exc # None THEN Internal(t, me, <<>>)
            ELSE IF r.ret = None THEN Internal(t, me, <<200>>)
            ELSE Done(t, me, 200, to_dict(r.ret), <<200>>)
    /\ UNCHANGED <<now, started, assigned, deleted, lastCount, vin, vout>>

(***************************************************************************)
(* DELETE /feedback/<id>: delete, count.                                   *)
(***************************************************************************)
DelBegin(t) ==
    \E fid \in PathIds :
       /\ Begin(t, "delete", fid, NoBody)
       /\ \E fault \in Faults :
            LET r == delete_feedback(fault, DB, fid)
                me == Wrote(Req("delete", fid, NoBody), r) IN
            /\ ApplyDb(r, fault)
            /\ IF r.exc # None
               THEN Internal(t, me, <<>>) /\ UNCHANGED deleted
               ELSE IF ~r.ret.v
               THEN /\ Done(t, [me EXCEPT !.success = "false"], 404,
                            ErrorBody("Feedback not found"), <<404>>)
                    /\ UNCHANGED deleted
               ELSE /\ Goto(t, [me EXCEPT !.success = "true"], "del_count")
                    /\ deleted' = deleted + 1
       /\ UNCHANGED <<now, assigned, lastCount, vin, vout>>

DelCount(t) ==
    /\ th[t].pc = "del_count"
    /\ \E fault \in Faults :
         LET r == count_feedback(fault, DB)
             me == th[t] IN
         /\ ApplyDb(r, fault)
         /\ IF r.exc # None
            THEN /\ Internal(t, me, <<>>)
                 /\ UNCHANGED lastCount
            ELSE /\ Counted(r)
                 /\ Done(t, me, 200,
                         [t |-> "message", message |-> "Feedback deleted successfully"],
                         <<200>>)
    /\ UNCHANGED <<now, started, assigned, deleted, vin, vout>>

Tick ==
    /\ now < MaxClock
    /\ now' = now + 1
    /\ UNCHANGED <<rows, seq, conns, th, started, faults, assigned, deleted, lastCount, vin, vout>>

Next ==
    \/ \E t \in Threads : health_check(t)
    \/ \E t \in Threads : PostBegin(t)
    \/ \E t \in Threads : PostInsert(t)
    \/ \E t \in Threads : PostCount(t)
    \/ \E t \in Threads : get_all(t)
    \/ \E t \in Threads : get_feedback(t)
    \/ \E t \in Threads : PutBegin(t)
    \/ \E t \in Threads : PutStamp(t)
    \/ \E t \in Threads : PutUpdate(t)
    \/ \E t \in Threads : PutReread(t)
    \/ \E t \in Threads : DelBegin(t)
    \/ \E t \in Threads : DelCount(t)
    \/ Tick

Spec == Init /\ [][Next]_vars

(***************************************************************************)
(* validate_feedback_message on its own: one payload, one call.            *)
(***************************************************************************)
RECURSIVE TextsOf(_)
TextsOf(k) ==
    IF k = 0 THEN {<<>>}
    ELSE LET shorter == TextsOf(k - 1) IN
         shorter \cup
         { Append(s, <<c, n>>) : s \in shorter, c \in Chars, n \in RunLens }

Texts == { s \in TextsOf(MaxRuns) : IsText(s) }

JsonValues == { Str(s) : s \in Texts } \cup { JsonNull, JsonInt(5) }

Payloads ==
    { NoBody, Dict({}, JsonNull), Dict({"name"}, JsonNull), List(0), List(1) }
    \cup { Dict(keys, v) : keys \in {{"message"}, {"message", "name"}}, v \in JsonValues }

VInit == MainInit /\ vin \in Payloads /\ vout = None

Validate ==
    /\ vout = None
    /\ vout' = validate_feedback_message(vin)
    /\ UNCHANGED <<rows, seq, conns, now, th, started, faults, assigned, deleted, lastCount, vin>>

VNext == Validate

SpecValidate == VInit /\ [][VNext]_vars

(***************************************************************************)
(* Properties.                                                             *)
(***************************************************************************)
Range(f) == { f[i] : i \in DOMAIN f }

IsDone(t, op) == th[t].pc = "done" /\ th[t].op = op

\* The thread t takes a request in this step.
Begins(t, op) == started' = started + 1 /\ th'[t] # th[t] /\ th'[t].op = op

\* The message a request submitted, trimmed.
Submitted(t) == strip(th[t].data.message.s)

\* C1: every stored record has an id, no two stored records share an id, the
\* ids create_feedback returns are strictly increasing, so an id once returned
\* is never returned again, also after its record (the highest one included)
\* was deleted.
C1_IdsUniqueIncreasing ==
    /\ \A r \in rows : r.id >= 1 /\ r.id \in Range(assigned)
    /\ \A r1, r2 \in rows : r1.id = r2.id => r1 = r2
    /\ \A i, j \in DOMAIN assigned : i < j => assigned[i] < assigned[j]

\* The record with the highest id was deleted, the table was counted empty, and
\* the next create got a new id.
C1_Witness ==
    /\ assigned = <<1, 2>>
    /\ deleted = 1
    /\ lastCount.ret = 0
    /\ Ids(rows) = {2}

\* C2: count_feedback returns the number of create_feedback calls that
\* returned less the number of delete_feedback calls that returned True.
C2_CountIsCreatesLessDeletes == lastCount.ret = lastCount.net

\* Two creates, one delete that removed a row, and a count of 1.
C2_Witness ==
    /\ Len(assigned) = 2
    /\ deleted = 1
    /\ lastCount = [ret |-> 1, net |-> 1]
    /\ \E t \in Threads : IsDone(t, "delete") /\ th[t].status = 200

\* C3: the update of a PUT that succeeds leaves the record's id and created_at
\* and every other record unchanged, sets message to the submitted trimmed
\* message and sets updated_at to a value not less than the previous one, also
\* when the steps of two PUTs for the same id interleave.
C3_UpdateFrame ==
    [][\A t \in Threads :
          (th[t].pc = "put_update" /\ th'[t].pc = "put_reread") =>
             /\ th[t].fid \in Ids(rows)
             /\ th[t].fid \in Ids(rows')
             /\ LET old == CHOOSE r \in rows : r.id = th[t].fid
                    new == CHOOSE r \in rows' : r.id = th[t].fid
                IN /\ new.created_at = old.created_at
                   /\ new.message = Submitted(t)
                   /\ StrLeq(old.updated_at, new.updated_at)
                   /\ rows' \ {new} = rows \ {old}]_vars

\* C4: right after create_feedback returns a record, get_feedback_by_id with
\* its id returns a record equal to it in all four fields, with created_at
\* equal to updated_at and the message the one given.
C4_CreateThenGet ==
    [][\A t \in Threads :
          (th[t].pc = "post_insert" /\ th'[t].pc = "post_count") =>
             LET saved == th'[t].feedback
                 got == get_feedback_by_id("none", [rows |-> rows', seq |-> seq'], saved.id).ret
             IN /\ got.t = "Feedback"
                /\ got.id = saved.id
                /\ got.message = saved.message
                /\ got.created_at = saved.created_at
                /\ got.updated_at = saved.updated_at
                /\ saved.created_at = saved.updated_at
                /\ saved.message = th[t].result.s]_vars

\* A record was created and no request has touched it since.
C4_Witness ==
    \E t \in Threads :
       /\ th[t].pc = "post_count"
       /\ th[t].feedback.id = 2
       /\ get_feedback_by_id("none", DB, 2).ret = th[t].feedback

\* C5: DELETE of an id that is not stored leaves the table unchanged and, when
\* the storage does not fail, delete_feedback returns False and the response is
\* 404 "Feedback not found"; so on every repeated call.
C5_DeleteMissing ==
    [][\A t \in Threads :
          (Begins(t, "delete") /\ th'[t].fid \notin Ids(rows)) =>
             /\ rows' = rows
             /\ deleted' = deleted
             /\ th'[t].success # "true"
             /\ faults' = faults =>
                   /\ th'[t].pc = "done"
                   /\ th'[t].success = "false"
                   /\ th'[t].status = 404
                   /\ th'[t].body = ErrorBody("Feedback not found")]_vars

\* The second delete of an id that was just deleted answers 404.
C5_Witness ==
    \E t \in Threads :
       /\ IsDone(t, "delete")
       /\ th[t].status = 404
       /\ th[t].fid \in Range(assigned)
       /\ th[t].fid \notin Ids(rows)
       /\ deleted = 1

\* The trimmed text of s: the runs between the leading and the trailing
\* whitespace.
IsTrimOf(m, s) ==
    \E i \in 1..(Len(s) + 1), j \in 0..Len(s) :
       /\ m = SubSeq(s, i, j)
       /\ \A k \in 1..(i - 1) : s[k][1] \in Whitespace
       /\ \A k \in (j + 1)..Len(s) : s[k][1] \in Whitespace
       /\ m # <<>> => m[1][1] \notin Whitespace /\ m[Len(m)][1] \notin Whitespace

Windows(s) == { SubSeq(s, i, j) : i \in 1..(Len(s) + 1), j \in 0..Len(s) }

AbsentOrEmpty(data) ==
    \/ data.t = "none"
    \/ data.t = "dict" /\ data.keys = {}
    \/ data.t = "list" /\ data.n = 0

\* C6: for every payload validate_feedback_message returns a pair: (False,
\* "Request body is required") for an absent or empty payload, (False, "Message
\* field is required and cannot be empty") for a message that is missing or
\* empty after trimming, (False, "Message cannot exceed 500 characters") for a
\* trimmed length over 500, (True, trimmed message) for a length of 1 to 500.
C6_ValidateReturnsPair ==
    vout # None =>
       /\ vout.t = "ret"
       /\ AbsentOrEmpty(vin) => vout = Returned(FALSE, Lit("Request body is required"))
       /\ (vin.t = "dict" /\ vin.keys # {} /\ "message" \notin vin.keys) =>
             vout = Returned(FALSE, Lit("Message field is required and cannot be empty"))
       /\ (vin.t = "dict" /\ "message" \in vin.keys /\ vin.message.t = "str") =>
             \A m \in Windows(vin.message.s) :
                IsTrimOf(m, vin.message.s) =>
                   vout = IF m = <<>>
                          THEN Returned(FALSE, Lit("Message field is required and cannot be empty"))
                          ELSE IF len(m) > MaxMessageLen
                          THEN Returned(FALSE, Lit("Message cannot exceed 500 characters"))
                          ELSE Returned(TRUE, Str(m))

\* The texts of the exceptions the handlers can meet.
ExceptionTexts ==
    { FaultText(f) : f \in FaultPoints }
    \cup { "'list' object has no attribute 'get'", "object has no attribute 'strip'" }

\* C7: in every handler the body of a response to an unexpected failure holds
\* no text of the exception.
C7_NoExceptionText ==
    \A t \in Threads :
       (th[t].pc = "done" /\ th[t].status >= 500) => th[t].body.error \notin ExceptionTexts

\* C8: a persistence call leaves no connection open; when a step of it fails,
\* the commit included, the table and sqlite_sequence are as before the call
\* and the handler that called it gets the exception; when it completes, its
\* change is in the table.
C8_AtomicCalls ==
    [][/\ conns' = 0
       /\ faults' # faults =>
             /\ rows' = rows
             /\ seq' = seq
             /\ \E t \in Threads :
                   th'[t] # th[t] /\ th'[t].pc = "done" /\ th'[t].status \in {500, 503}
       /\ \A t \in Threads :
             /\ (th[t].pc = "post_insert" /\ th'[t].pc = "post_count") =>
                   \E r \in rows' : FromRow(r) = th'[t].feedback
             /\ (th[t].pc = "put_update" /\ th'[t].pc = "put_reread") =>
                   \E r \in rows' :
                      /\ r.id = th[t].fid
                      /\ r.message = th[t].result.s
                      /\ r.updated_at = th[t].updated_at
             /\ (th[t].pc # "del_count" /\ th'[t].pc = "del_count") =>
                   th'[t].fid \notin Ids(rows')]_vars

\* A create failed after its request was validated, and nothing was stored.
C8_Witness ==
    /\ faults > 0
    /\ conns = 0
    /\ rows = {}
    /\ seq = 0
    /\ \E t \in Threads :
          /\ IsDone(t, "post")
          /\ th[t].status = 500
          /\ validate_feedback_message(th[t].data).t = "ret"

\* C9: a PUT that answers 200 answers with the record of its id holding the
\* message it submitted, and a PUT whose update found no record answers 404,
\* also when other requests for the id run between its steps.
C9_PutAnswersItsUpdate ==
    \A t \in Threads :
       IsDone(t, "put") =>
          /\ th[t].status = 200 =>
                th[t].body.id = th[t].fid /\ th[t].body.message = Submitted(t)
          /\ th[t].success = "false" => th[t].status = 404

\* C10: a POST, PUT or DELETE that answers with another status than its
\* success status has not changed the table.
C10_FailureWritesNothing ==
    \A t \in Threads :
       (th[t].pc = "done" /\ th[t].op \in {"post", "put", "delete"}
           /\ th[t].status \notin {200, 201}) => ~th[t].wrote

\* C11: every request increments http_requests_total exactly once, with the
\* status label equal to the status of the response returned, on the success
\* path and on every validation, not-found and failure path, also when the
\* failure is raised after the success counter was incremented.
C11_CountedOnce ==
    \A t \in Threads :
       th[t].pc = "done" => th[t].counted = <<th[t].status>>

=============================================================================
